---- MODULE Spec2Model ----
(***************************************************************************)
(* A model of the APU controller of Core/APU.cpp: the $4015 register file, *)
(* the lazy scheduler (Exec / NeedToRun / Run) and the frame-end flush.    *)
(* The frame counter, the channels, the DMC and the CPU's IRQ latch are    *)
(* the controller's collaborators; they are modelled from their described  *)
(* contracts, the controller from its code.                                *)
(***************************************************************************)
EXTENDS Integers, Sequences, FiniteSets, TLC

VARIABLES
    currentCycle,   \* APU::_currentCycle
    previousCycle,  \* APU::_previousCycle
    nesModel,       \* APU::_nesModel
    chan,           \* the four length-counter channels, by name
    dmc,            \* the delta modulation channel
    fc,             \* the frame counter
    irq,            \* the CPU's latched IRQ sources
    lcNeedToRun,    \* ApuLengthCounter's static "need to run" flag
    blipClockRate,  \* the model whose CPU clock rate the Blip_Buffer is set to
    audioDevice,    \* APU::AudioDevice is non-null
    sinkCalls,      \* number of PlayBuffer calls made so far
    opsLeft,        \* register accesses / control calls still allowed
    frames,         \* audio frames flushed so far
    lastOp,         \* the operation that produced this state
    lastArg,        \* its argument (<<>> when it has none)
    preIrq,         \* the IRQ sources pending when it began, for a $4015 access
                    \* ({} for the other operations)
    lastStatus,     \* the byte returned, when this state results from a $4015 read
                    \* (-1 otherwise)
    prevStatus,     \* the byte returned by the read right before that read, when no
                    \* other operation came between the two (-1 otherwise)
    flushCalls,     \* the calls made by the flush of a frame, in order, when this state
                    \* results from one (<<>> otherwise)
    units,          \* clocks received so far by the envelope, linear-counter and sweep
                    \* units of the channels
    noise,          \* the noise channel's shift register and mode flag
    saved,          \* the stream written by StreamState(true) and not yet read back
    loop            \* the position of a call of Run() within its loop

\* The units, the shift register, the save state and the inside of Run()'s loop are
\* left alone by the specification Spec; each has a specification of its own below.
detailVars == <<units, noise, saved, loop>>

vars == <<currentCycle, previousCycle, nesModel, chan, dmc, fc, irq, lcNeedToRun,
          blipClockRate, audioDevice, sinkCalls, opsLeft, frames, lastOp, lastArg, preIrq,
          lastStatus, prevStatus, flushCalls, units, noise, saved, loop>>

---------------------------------------------------------------------------
\* Bounds of the exploration.
MaxOps == 3
MaxFrames == 2

\* APU::Exec: the cycle count at which a frame is flushed.
FrameCycleLimit == 10000

Models == {"NTSC", "PAL"}
Channels == {"Square1", "Square2", "Triangle", "Noise"}
IRQSources == {"FrameCounter", "DMC"}

Bit(v, k) == (v \div (2 ^ k)) % 2

---------------------------------------------------------------------------
\* Length counter (shared by the pulse, triangle and noise channels).

LengthTable == <<10, 254, 20, 2, 40, 4, 80, 6, 160, 8, 60, 10, 14, 12, 26, 14,
                 12, 16, 24, 18, 48, 20, 96, 22, 192, 24, 72, 26, 16, 28, 32, 30>>

ChannelReset == [enabled |-> FALSE, lengthCounter |-> 0, halt |-> FALSE, cycle |-> 0]

\* SetEnabled: a cleared enable flag forces the length counter to 0.
ChannelSetEnabled(c, en) ==
    [c EXCEPT !.enabled = en,
              !.lengthCounter = IF en THEN c.lengthCounter ELSE 0]

\* Length-load register write: the counter is loaded from the table, keyed by the
\* high 5 bits of the value, unless the channel is disabled.
ChannelLoadLength(c, v) ==
    [c EXCEPT !.lengthCounter = IF c.enabled THEN LengthTable[(v \div 8) + 1]
                                ELSE c.lengthCounter]

ChannelSetHalt(c, h) == [c EXCEPT !.halt = h]

\* Half-frame clock: decrement unless halted; saturate at 0.
TickLengthCounter(c) ==
    [c EXCEPT !.lengthCounter = IF c.lengthCounter > 0 /\ ~c.halt
                                THEN c.lengthCounter - 1 ELSE c.lengthCounter]

\* GetStatus of a length-counter channel.
ChannelGetStatus(c) == c.lengthCounter > 0

\* Run(targetCycle): the channel is advanced (its deltas posted) up to targetCycle.
ChannelRun(c, target) == [c EXCEPT !.cycle = target]

\* EndFrame: the channel's time base is rebased to the new frame.
ChannelEndFrame(c) == [c EXCEPT !.cycle = 0]

---------------------------------------------------------------------------
\* Delta modulation channel.

DmcPeriodNtsc == <<428, 380, 340, 320, 286, 254, 226, 214, 190, 160, 142, 128, 106, 84, 72, 54>>
DmcPeriodPal == <<398, 354, 316, 298, 276, 236, 210, 198, 176, 148, 132, 118, 98, 78, 66, 50>>

DmcPeriod(model, rate) ==
    IF model = "NTSC" THEN DmcPeriodNtsc[rate + 1] ELSE DmcPeriodPal[rate + 1]

DmcSampleAddr(v) == 49152 + v * 64
DmcSampleLength(v) == v * 16 + 1

DmcReset(model) ==
    [sampleAddr |-> DmcSampleAddr(0), sampleLength |-> DmcSampleLength(0),
     currentAddr |-> DmcSampleAddr(0), bytesRemaining |-> 0,
     bitsRemaining |-> 8, silence |-> TRUE,
     irqEnabled |-> FALSE, loop |-> FALSE, rate |-> 0,
     period |-> DmcPeriod(model, 0), timer |-> DmcPeriod(model, 0), cycle |-> 0]

DmcInitSample(d) ==
    [d EXCEPT !.currentAddr = d.sampleAddr, !.bytesRemaining = d.sampleLength]

\* SetEnabled: disabling zeroes bytes_remaining; enabling restarts the sample when
\* no bytes remain.  The result carries the IRQ sources, which the DMC may raise.
DmcSetEnabled(d, q, en) ==
    IF ~en THEN [dmc |-> [d EXCEPT !.bytesRemaining = 0], irq |-> q]
    ELSE IF d.bytesRemaining = 0
         THEN LET r == DmcInitSample(d)
              IN  [dmc |-> r,
                   irq |-> IF r.bytesRemaining = 0 /\ r.irqEnabled /\ ~r.loop
                           THEN q \cup {"DMC"} ELSE q]
         ELSE [dmc |-> d, irq |-> q]

DmcGetStatus(d) == d.bytesRemaining > 0

\* The refill of the shifter when its last bit has been shifted out.
DmcRefill(d, q) ==
    IF d.bytesRemaining > 0
    THEN LET a == IF d.currentAddr = 65535 THEN 32768 ELSE d.currentAddr + 1
             n == d.bytesRemaining - 1
             f == [d EXCEPT !.currentAddr = a, !.bytesRemaining = n,
                            !.bitsRemaining = 8, !.silence = FALSE]
         IN  IF n = 0
             THEN IF d.loop THEN [dmc |-> DmcInitSample(f), irq |-> q]
                  ELSE IF d.irqEnabled THEN [dmc |-> f, irq |-> q \cup {"DMC"}]
                  ELSE [dmc |-> f, irq |-> q]
             ELSE [dmc |-> f, irq |-> q]
    ELSE [dmc |-> [d EXCEPT !.bitsRemaining = 8, !.silence = TRUE], irq |-> q]

\* n DMC clocks, one every `period` CPU cycles.  A clock decrements
\* bits_remaining and, when it reaches 0, refills the shifter.  The clocks before the
\* next refill only shift; once no bytes remain and the channel is silent every
\* refill finds the same state, 8 clocks after the last.
RECURSIVE DmcClocks(_, _, _)
DmcClocks(d, q, n) ==
    IF n < d.bitsRemaining
    THEN [dmc |-> [d EXCEPT !.bitsRemaining = d.bitsRemaining - n], irq |-> q]
    ELSE LET r == DmcRefill(d, q)
             m == n - d.bitsRemaining
         IN  IF r.dmc.bytesRemaining = 0 /\ r.dmc.silence
             THEN [dmc |-> [r.dmc EXCEPT !.bitsRemaining = 8 - (m % 8)], irq |-> r.irq]
             ELSE DmcClocks(r.dmc, r.irq, m)

\* The timer counts CPU cycles down to the next clock.
DmcAdvance(d, q, cycles) ==
    IF cycles >= d.timer
    THEN LET over == cycles - d.timer
         IN  DmcClocks([d EXCEPT !.timer = d.period - (over % d.period)], q,
                       1 + (over \div d.period))
    ELSE [dmc |-> [d EXCEPT !.timer = d.timer - cycles], irq |-> q]

\* Run(targetCycle).
DmcRun(d, q, target) ==
    LET r == DmcAdvance(d, q, target - d.cycle)
    IN  [dmc |-> [r.dmc EXCEPT !.cycle = target], irq |-> r.irq]

\* Cycles until the cycle on which the DMC IRQ is raised.
DmcCyclesToIrq(d) ==
    d.timer + (d.bitsRemaining - 1 + (d.bytesRemaining - 1) * 8) * d.period

DmcIrqPending(d, cyclesToRun) ==
    /\ d.irqEnabled /\ ~d.loop /\ d.bytesRemaining > 0
    /\ cyclesToRun >= DmcCyclesToIrq(d)

DmcSetNesModel(d, model) == [d EXCEPT !.period = DmcPeriod(model, d.rate)]

DmcEndFrame(d) == [d EXCEPT !.cycle = 0]

---------------------------------------------------------------------------
\* Frame counter.

StepCycles4Ntsc == <<7457, 14913, 22371, 29828, 29829, 29830>>
StepCycles5Ntsc == <<7457, 14913, 22371, 29829, 37281>>
StepCycles4Pal == <<8313, 16627, 24939, 33252, 33253, 33254>>
StepCycles5Pal == <<8313, 16627, 24939, 33253, 41565>>
FrameType4 == <<"Quarter", "Half", "Quarter", "None", "Half", "None">>
FrameType5 == <<"Quarter", "Half", "Quarter", "None", "Half">>

StepCycles(f) ==
    IF f.model = "NTSC" THEN (IF f.mode = 0 THEN StepCycles4Ntsc ELSE StepCycles5Ntsc)
    ELSE (IF f.mode = 0 THEN StepCycles4Pal ELSE StepCycles5Pal)

FrameTypes(f) == IF f.mode = 0 THEN FrameType4 ELSE FrameType5

\* The last three steps of 4-step mode setting the frame IRQ whatever the inhibit
\* flag says.
FcStepSetsIrqInhibited(f) == f.mode = 0 /\ f.step >= 4

\* In 4-step mode the last three steps set the frame IRQ unless it is inhibited.
FcStepSetsIrq(f) == f.mode = 0 /\ ~f.inhibit /\ f.step >= 4

FcReset(model) == [model |-> model, mode |-> 0, inhibit |-> FALSE, pos |-> 0, step |-> 1]

FcSetNesModel(f, model) == [f EXCEPT !.model = model]

\* Run(cyclesToRun): advance to the next event boundary or by cyclesToRun, whichever
\* comes first.  The cycles consumed are taken off cyclesToRun (passed by reference);
\* `tick` is the event handed to the callback.
FcRun(f, q, cyclesToRun) ==
    LET next == StepCycles(f)[f.step]
    IN  IF f.pos + cyclesToRun >= next
        THEN LET ran == IF next > f.pos THEN next - f.pos ELSE 0
                 last == f.step = Len(StepCycles(f))
             IN  [ran |-> ran,
                  cyclesToRun |-> cyclesToRun - ran,
                  fc |-> [f EXCEPT !.step = IF last THEN 1 ELSE f.step + 1,
                                   !.pos = IF last THEN 0 ELSE f.pos + ran],
                  irq |-> IF FcStepSetsIrq(f) THEN q \cup {"FrameCounter"} ELSE q,
                  tick |-> FrameTypes(f)[f.step]]
        ELSE [ran |-> cyclesToRun,
              cyclesToRun |-> 0,
              fc |-> [f EXCEPT !.pos = f.pos + cyclesToRun],
              irq |-> q,
              tick |-> "None"]

\* Cycles until the next cycle on which the frame IRQ is set (4-step mode).
FcCyclesToIrq(f) ==
    (IF f.step >= 4 THEN StepCycles(f)[f.step] ELSE StepCycles(f)[4]) - f.pos

FcIrqPending(f, cyclesToRun) ==
    f.mode = 0 /\ ~f.inhibit /\ cyclesToRun >= FcCyclesToIrq(f)

---------------------------------------------------------------------------
\* APU controller.

\* APU::FrameCounterTick.  The envelope, linear-counter and sweep clocks act on
\* units that no register at $4015 reads back; the length counters are the part of
\* a tick that the status byte shows.
FrameCounterTick(ch, type) ==
    IF type = "Half" THEN [c \in Channels |-> TickLengthCounter(ch[c])]
    ELSE ch

\* The part of the state Run() works on.
ApuState ==
    [cur |-> currentCycle, prev |-> previousCycle, chan |-> chan, dmc |-> dmc,
     fc |-> fc, irq |-> irq, ntr |-> lcNeedToRun]

\* The order in which APU::Run advances the channels.
RunOrder == <<"Square1", "Square2", "Noise", "Triangle", "DMC">>

\* One iteration of the loop of APU::Run with the channels advanced before the
\* frame counter, to the watermark as the iteration found it.
RunIterationChannelsFirst(s, cyclesToRun) ==
    LET d == DmcRun(s.dmc, s.irq, s.prev)
        f == FcRun(s.fc, d.irq, cyclesToRun)
        p == s.prev + f.ran
        advanced == [c \in Channels |-> ChannelRun(s.chan[c], s.prev)]
    IN  [state |-> [s EXCEPT !.prev = p,
                             !.fc = f.fc,
                             !.chan = IF f.tick = "None" THEN advanced
                                      ELSE FrameCounterTick(advanced, f.tick),
                             !.dmc = d.dmc,
                             !.irq = f.irq,
                             !.ntr = FALSE],
         cyclesToRun |-> f.cyclesToRun,
         ran |-> f.ran,
         calls |-> [i \in 1..Len(RunOrder) |->
                      [call |-> "Run", on |-> RunOrder[i], cycle |-> s.prev]]
                   \o <<[call |-> "Run", on |-> "FrameCounter", cycle |-> s.prev]>>
                   \o (IF f.tick = "None" THEN <<>>
                       ELSE <<[call |-> "FrameCounterTick", on |-> f.tick,
                               cycle |-> s.prev]>>)]

\* One iteration of the loop of APU::Run with _previousCycle set to _currentCycle
\* whatever the frame counter reported.
RunIterationToCurrent(s, cyclesToRun) ==
    LET f == FcRun(s.fc, s.irq, cyclesToRun)
        ticked == IF f.tick = "None" THEN s.chan ELSE FrameCounterTick(s.chan, f.tick)
        d == DmcRun(s.dmc, f.irq, s.cur)
    IN  [state |-> [s EXCEPT !.prev = s.cur,
                             !.fc = f.fc,
                             !.chan = [c \in Channels |-> ChannelRun(ticked[c], s.cur)],
                             !.dmc = d.dmc,
                             !.irq = d.irq,
                             !.ntr = FALSE],
         cyclesToRun |-> f.cyclesToRun,
         ran |-> f.ran,
         calls |-> <<[call |-> "Run", on |-> "FrameCounter", cycle |-> s.prev]>>
                   \o (IF f.tick = "None" THEN <<>>
                       ELSE <<[call |-> "FrameCounterTick", on |-> f.tick,
                               cycle |-> s.prev]>>)
                   \o [i \in 1..Len(RunOrder) |->
                         [call |-> "Run", on |-> RunOrder[i], cycle |-> s.cur]]]

\* One iteration of the loop of APU::Run: its result, the cycles the frame counter
\* reported, and the calls made, in order, each with the value of _previousCycle
\* it is made with (the frame counter calls FrameCounterTick back from inside its
\* Run, before _previousCycle is increased).
RunIteration(s, cyclesToRun) ==
    LET f == FcRun(s.fc, s.irq, cyclesToRun)
        p == s.prev + f.ran
        ticked == IF f.tick = "None" THEN s.chan ELSE FrameCounterTick(s.chan, f.tick)
        d == DmcRun(s.dmc, f.irq, p)
    IN  [state |-> [s EXCEPT !.prev = p,
                             !.fc = f.fc,
                             !.chan = [c \in Channels |-> ChannelRun(ticked[c], p)],
                             !.dmc = d.dmc,
                             !.irq = d.irq,
                             !.ntr = FALSE],
         cyclesToRun |-> f.cyclesToRun,
         ran |-> f.ran,
         calls |-> <<[call |-> "Run", on |-> "FrameCounter", cycle |-> s.prev]>>
                   \o (IF f.tick = "None" THEN <<>>
                       ELSE <<[call |-> "FrameCounterTick", on |-> f.tick,
                               cycle |-> s.prev]>>)
                   \o [i \in 1..Len(RunOrder) |->
                         [call |-> "Run", on |-> RunOrder[i], cycle |-> p]]]

\* F applied to the value of v, v being evaluated once.
Once(v, F(_)) == CHOOSE x \in {F(y) : y \in {v}} : TRUE

RECURSIVE RunLoop(_, _)
RunLoop(s, cyclesToRun) ==
    IF s.prev < s.cur
    THEN Once(RunIteration(s, cyclesToRun), LAMBDA r : RunLoop(r.state, r.cyclesToRun))
    ELSE s

\* APU::Run with `if` in place of `while`: a single iteration.
RunOnce(s) ==
    IF s.prev < s.cur THEN RunIteration(s, s.cur - s.prev).state ELSE s

\* APU::Run.
Run(s) == RunLoop(s, s.cur - s.prev)

\* APU::NeedToRun without the question put to the DMC.
NeedToRunNoDmc(s, cycle) ==
    \/ s.ntr
    \/ FcIrqPending(s.fc, cycle - s.prev)

\* APU::NeedToRun without the question put to the frame counter.
NeedToRunNoFrameCounter(s, cycle) ==
    \/ s.ntr
    \/ DmcIrqPending(s.dmc, cycle - s.prev)

\* APU::NeedToRun.
NeedToRun(s, cycle) ==
    \/ s.ntr
    \/ FcIrqPending(s.fc, cycle - s.prev)
    \/ DmcIrqPending(s.dmc, cycle - s.prev)

\* The status byte with the triangle's and the noise channel's masks exchanged.
StatusByteSwapped(s) ==
      (IF ChannelGetStatus(s.chan["Square1"]) THEN 1 ELSE 0)
    + (IF ChannelGetStatus(s.chan["Square2"]) THEN 2 ELSE 0)
    + (IF ChannelGetStatus(s.chan["Triangle"]) THEN 8 ELSE 0)
    + (IF ChannelGetStatus(s.chan["Noise"]) THEN 4 ELSE 0)
    + (IF DmcGetStatus(s.dmc) THEN 16 ELSE 0)
    + (IF "FrameCounter" \in s.irq THEN 64 ELSE 0)
    + (IF "DMC" \in s.irq THEN 128 ELSE 0)

\* The status byte APU::ReadRAM composes.
StatusByte(s) ==
      (IF ChannelGetStatus(s.chan["Square1"]) THEN 1 ELSE 0)
    + (IF ChannelGetStatus(s.chan["Square2"]) THEN 2 ELSE 0)
    + (IF ChannelGetStatus(s.chan["Triangle"]) THEN 4 ELSE 0)
    + (IF ChannelGetStatus(s.chan["Noise"]) THEN 8 ELSE 0)
    + (IF DmcGetStatus(s.dmc) THEN 16 ELSE 0)
    + (IF "FrameCounter" \in s.irq THEN 64 ELSE 0)
    + (IF "DMC" \in s.irq THEN 128 ELSE 0)

\* CPU::ClearIRQSource.
ClearIRQSource(q, source) == q \ {source}

\* APU::WriteRAM's effects without the clearing of the DMC's IRQ source.
ApplyWrite4015NoClear(s, value) ==
    LET ch == [s.chan EXCEPT
                 !["Square1"] = ChannelSetEnabled(@, Bit(value, 0) = 1),
                 !["Square2"] = ChannelSetEnabled(@, Bit(value, 1) = 1),
                 !["Triangle"] = ChannelSetEnabled(@, Bit(value, 2) = 1),
                 !["Noise"] = ChannelSetEnabled(@, Bit(value, 3) = 1)]
        d == DmcSetEnabled(s.dmc, s.irq, Bit(value, 4) = 1)
    IN  [s EXCEPT !.chan = ch, !.dmc = d.dmc, !.irq = d.irq]

\* APU::WriteRAM's effects with the DMC enabled by the noise channel's mask (0x08).
ApplyWrite4015DmcWrongBit(s, value) ==
    LET q == ClearIRQSource(s.irq, "DMC")
        ch == [s.chan EXCEPT
                 !["Square1"] = ChannelSetEnabled(@, Bit(value, 0) = 1),
                 !["Square2"] = ChannelSetEnabled(@, Bit(value, 1) = 1),
                 !["Triangle"] = ChannelSetEnabled(@, Bit(value, 2) = 1),
                 !["Noise"] = ChannelSetEnabled(@, Bit(value, 3) = 1)]
        d == DmcSetEnabled(s.dmc, q, Bit(value, 3) = 1)
    IN  [s EXCEPT !.chan = ch, !.dmc = d.dmc, !.irq = d.irq]

\* APU::WriteRAM's effects with the masks of the two pulse channels exchanged.
ApplyWrite4015SwappedSquares(s, value) ==
    LET q == ClearIRQSource(s.irq, "DMC")
        ch == [s.chan EXCEPT
                 !["Square1"] = ChannelSetEnabled(@, Bit(value, 1) = 1),
                 !["Square2"] = ChannelSetEnabled(@, Bit(value, 0) = 1),
                 !["Triangle"] = ChannelSetEnabled(@, Bit(value, 2) = 1),
                 !["Noise"] = ChannelSetEnabled(@, Bit(value, 3) = 1)]
        d == DmcSetEnabled(s.dmc, q, Bit(value, 4) = 1)
    IN  [s EXCEPT !.chan = ch, !.dmc = d.dmc, !.irq = d.irq]

\* The effects of APU::WriteRAM after its Run(): the DMC flag is cleared, then the
\* five enable bits are applied in the order Square1, Square2, Triangle, Noise, DMC.
ApplyWrite4015(s, value) ==
    LET q == ClearIRQSource(s.irq, "DMC")
        ch == [s.chan EXCEPT
                 !["Square1"] = ChannelSetEnabled(@, Bit(value, 0) = 1),
                 !["Square2"] = ChannelSetEnabled(@, Bit(value, 1) = 1),
                 !["Triangle"] = ChannelSetEnabled(@, Bit(value, 2) = 1),
                 !["Noise"] = ChannelSetEnabled(@, Bit(value, 3) = 1)]
        d == DmcSetEnabled(s.dmc, q, Bit(value, 4) = 1)
    IN  [s EXCEPT !.chan = ch, !.dmc = d.dmc, !.irq = d.irq]

\* Assignment of a state of Run() to the variables.
Store(s) ==
    /\ currentCycle' = s.cur
    /\ previousCycle' = s.prev
    /\ chan' = s.chan
    /\ dmc' = s.dmc
    /\ fc' = s.fc
    /\ irq' = s.irq
    /\ lcNeedToRun' = s.ntr

NoRead == lastStatus' = -1 /\ prevStatus' = -1
Access(op, arg) ==
    /\ opsLeft > 0
    /\ opsLeft' = opsLeft - 1
    /\ lastOp' = op
    /\ lastArg' = arg
    /\ preIrq' = IF op \in {"read", "write", "write4017"} THEN irq ELSE {}
    /\ flushCalls' = <<>>
    /\ UNCHANGED <<frames, audioDevice, sinkCalls>>
    /\ UNCHANGED detailVars

---------------------------------------------------------------------------
\* The units a frame-counter event can clock: the envelopes of the pulse and noise
\* channels, the triangle's linear counter, the length counters of the four
\* channels that have one and the sweep units of the pulse channels.  Each is
\* represented by the number of clocks it received.
Units == {<<"Square1", "Envelope">>, <<"Square2", "Envelope">>, <<"Noise", "Envelope">>,
          <<"Triangle", "LinearCounter">>,
          <<"Square1", "LengthCounter">>, <<"Square2", "LengthCounter">>,
          <<"Triangle", "LengthCounter">>, <<"Noise", "LengthCounter">>,
          <<"Square1", "Sweep">>, <<"Square2", "Sweep">>}

UnitsReset == [x \in Units |-> 0]

\* The calls of APU::FrameCounterTick on the channels' units, in order, with the
\* length counters and the sweeps clocked by every event.
TickCallsEveryEvent(type) ==
    <<<<"Square1", "Envelope">>, <<"Square2", "Envelope">>,
      <<"Triangle", "LinearCounter">>, <<"Noise", "Envelope">>,
      <<"Square1", "LengthCounter">>, <<"Square2", "LengthCounter">>,
      <<"Triangle", "LengthCounter">>, <<"Noise", "LengthCounter">>,
      <<"Square1", "Sweep">>, <<"Square2", "Sweep">>>>

\* The calls of APU::FrameCounterTick on the channels' units, in order.
TickCalls(type) ==
    <<<<"Square1", "Envelope">>, <<"Square2", "Envelope">>,
      <<"Triangle", "LinearCounter">>, <<"Noise", "Envelope">>>>
    \o (IF type = "Half"
        THEN <<<<"Square1", "LengthCounter">>, <<"Square2", "LengthCounter">>,
               <<"Triangle", "LengthCounter">>, <<"Noise", "LengthCounter">>,
               <<"Square1", "Sweep">>, <<"Square2", "Sweep">>>>
        ELSE <<>>)

\* The clock counts after the calls of an event.
ClockUnits(u, type) ==
    LET calls == TickCalls(type)
    IN  [x \in Units |-> u[x] + Cardinality({i \in 1..Len(calls) : calls[i] = x})]

\* The channels after the calls of an event: a length counter steps once for each
\* call of its TickLengthCounter.
ClockLengthCounters(ch, type) ==
    LET calls == TickCalls(type)
    IN  [c \in Channels |->
           IF \E i \in 1..Len(calls) : calls[i] = <<c, "LengthCounter">>
           THEN TickLengthCounter(ch[c]) ELSE ch[c]]

\* The noise channel's 15-bit shift register, seeded with 1, and its mode flag
\* ($400E bit 6).
NoiseReset == [shiftRegister |-> 1, mode |-> FALSE]

\* No stream waiting to be read back.
NoSave == <<>>

\* No call of Run() in progress.
LoopIdle == [pc |-> "idle", caller |-> "", arg |-> 0, cyclesToRun |-> 0, ran |-> 0,
             calls |-> <<>>]

---------------------------------------------------------------------------
\* The state after construction: APU::APU ends with Reset(false), and the console
\* has set the model (NTSC) once.  An audio device may or may not be registered.
Init ==
    /\ currentCycle = 0
    /\ previousCycle = 0
    /\ nesModel = "NTSC"
    /\ chan = [c \in Channels |-> ChannelReset]
    /\ dmc = DmcReset(nesModel)
    /\ fc = FcReset(nesModel)
    /\ irq = {}
    /\ lcNeedToRun = FALSE
    /\ blipClockRate = nesModel
    /\ audioDevice \in BOOLEAN
    /\ sinkCalls = 0
    /\ opsLeft = MaxOps
    /\ frames = 0
    /\ lastOp = "init"
    /\ lastArg = <<>>
    /\ preIrq = {}
    /\ lastStatus = -1
    /\ prevStatus = -1
    /\ flushCalls = <<>>
    /\ units = UnitsReset
    /\ noise = NoiseReset
    /\ saved = NoSave
    /\ loop = LoopIdle

\* APU::ReadRAM without its leading Run().
ReadRAMNoRun ==
    /\ Access("read", <<>>)
    /\ lastStatus' = StatusByte(ApuState)
    /\ Store([ApuState EXCEPT !.irq = ClearIRQSource(irq, "FrameCounter")])
    /\ prevStatus' = IF lastOp = "read" THEN lastStatus ELSE -1
    /\ UNCHANGED <<nesModel, blipClockRate>>

\* APU::ReadRAM without the clearing of the frame counter's IRQ source.
ReadRAMNoClear ==
    /\ Access("read", <<>>)
    /\ LET r == Run(ApuState)
       IN  /\ lastStatus' = StatusByte(r)
           /\ Store(r)
    /\ prevStatus' = IF lastOp = "read" THEN lastStatus ELSE -1
    /\ UNCHANGED <<nesModel, blipClockRate>>

\* APU::ReadRAM clearing both IRQ sources it reports.
ReadRAMClearsBoth ==
    /\ Access("read", <<>>)
    /\ LET r == Run(ApuState)
       IN  /\ lastStatus' = StatusByte(r)
           /\ Store([r EXCEPT !.irq = {}])
    /\ prevStatus' = IF lastOp = "read" THEN lastStatus ELSE -1
    /\ UNCHANGED <<nesModel, blipClockRate>>

\* APU::ReadRAM ($4015 read).
ReadRAM ==
    /\ Access("read", <<>>)
    /\ LET r == Run(ApuState)
       IN  /\ lastStatus' = StatusByte(r)
           /\ Store([r EXCEPT !.irq = ClearIRQSource(r.irq, "FrameCounter")])
    /\ prevStatus' = IF lastOp = "read" THEN lastStatus ELSE -1
    /\ UNCHANGED <<nesModel, blipClockRate>>

\* APU::WriteRAM ($4015 write).
WriteRAM(value) ==
    /\ Access("write", value)
    /\ Store(ApplyWrite4015(Run(ApuState), value))
    /\ NoRead
    /\ UNCHANGED <<nesModel, blipClockRate>>

\* The flush without the rebase of _previousCycle.
EndFrameKeepPrevious(s) ==
    [s EXCEPT !.chan = [c \in Channels |-> ChannelEndFrame(s.chan[c])],
              !.dmc = DmcEndFrame(s.dmc),
              !.cur = 0]

\* The flush of one audio frame in APU::Exec, after its Run().
EndFrame(s) ==
    [s EXCEPT !.chan = [c \in Channels |-> ChannelEndFrame(s.chan[c])],
              !.dmc = DmcEndFrame(s.dmc),
              !.cur = 0,
              !.prev = 0]

\* The order in which APU::Exec calls the channels' EndFrame.
EndFrameOrder == <<"Square1", "Square2", "Triangle", "Noise", "DMC">>

\* The time base of a channel: the cycle it has been advanced to.
Watermark(s, c) == IF c = "DMC" THEN s.dmc.cycle ELSE s.chan[c].cycle

\* The frame-limit branch of APU::Exec with the channels' EndFrame called before
\* Run(), so that Run() advances the channels after their end-of-frame hook.
FlushHooksBeforeRun(s, device) ==
    LET h == [s EXCEPT !.chan = [c \in Channels |-> ChannelEndFrame(s.chan[c])],
                       !.dmc = DmcEndFrame(s.dmc)]
        r == Run(h)
        hooks == [i \in 1..Len(EndFrameOrder) |->
                    [call |-> "EndFrame", on |-> EndFrameOrder[i],
                     cycle |-> Watermark(s, EndFrameOrder[i])]]
    IN  [state |-> [r EXCEPT !.cur = 0, !.prev = 0],
         pushed |-> device,
         calls |-> hooks
                   \o <<[call |-> "Run", on |-> "APU", cycle |-> r.prev],
                        [call |-> "end_frame", on |-> "Blip_Buffer", cycle |-> r.cur],
                        [call |-> "read_samples", on |-> "Blip_Buffer", cycle |-> r.cur]>>
                   \o (IF device
                       THEN <<[call |-> "PlayBuffer", on |-> "AudioDevice", cycle |-> r.cur]>>
                       ELSE <<>>)
                   \o <<[call |-> "rebase", on |-> "APU", cycle |-> 0]>>]

\* The frame-limit branch of APU::Exec: its result and the calls it makes, in order.
\* Each call is recorded with the cycle it is given or finds: Run() with the
\* watermark it leaves, EndFrame with the cycle the channel has been advanced to,
\* end_frame and read_samples with _currentCycle as it is then, the rebase with the
\* value assigned.
Flush(s, device) == Once(Run(s), LAMBDA r :
    LET e == EndFrame(r)
        hooks == [i \in 1..Len(EndFrameOrder) |->
                    [call |-> "EndFrame", on |-> EndFrameOrder[i],
                     cycle |-> Watermark(r, EndFrameOrder[i])]]
    IN  [state |-> e,
         pushed |-> device,
         calls |-> <<[call |-> "Run", on |-> "APU", cycle |-> r.prev]>>
                   \o hooks
                   \o <<[call |-> "end_frame", on |-> "Blip_Buffer", cycle |-> r.cur],
                        [call |-> "read_samples", on |-> "Blip_Buffer", cycle |-> r.cur]>>
                   \o (IF device
                       THEN <<[call |-> "PlayBuffer", on |-> "AudioDevice", cycle |-> r.cur]>>
                       ELSE <<>>)
                   \o <<[call |-> "rebase", on |-> "APU", cycle |-> e.cur]>>])

\* APU::Exec pushing the output buffer to the audio device after every Run(), not
\* only at the frame limit.
ExecPushesOnEveryRun ==
    /\ lastOp' = "exec"
    /\ lastArg' = <<>>
    /\ preIrq' = {}
    /\ LET s == [ApuState EXCEPT !.cur = currentCycle + 1]
       IN  IF s.cur = FrameCycleLimit
           THEN /\ frames < MaxFrames
                /\ LET f == Flush(s, audioDevice)
                   IN  /\ Store(f.state)
                       /\ sinkCalls' = IF f.pushed THEN sinkCalls + 1 ELSE sinkCalls
                       /\ flushCalls' = f.calls
                /\ frames' = frames + 1
           ELSE /\ Store(IF NeedToRun(s, s.cur) THEN Run(s) ELSE s)
                /\ sinkCalls' = IF audioDevice /\ NeedToRun(s, s.cur)
                                 THEN sinkCalls + 1 ELSE sinkCalls
                /\ flushCalls' = <<>>
                /\ UNCHANGED frames
    /\ NoRead
    /\ UNCHANGED <<nesModel, blipClockRate, audioDevice, opsLeft>>
    /\ UNCHANGED detailVars

\* APU::Exec: one CPU cycle.
Exec ==
    /\ lastOp' = "exec"
    /\ lastArg' = <<>>
    /\ preIrq' = {}
    /\ LET s == [ApuState EXCEPT !.cur = currentCycle + 1]
       IN  IF s.cur = FrameCycleLimit
           THEN /\ frames < MaxFrames
                /\ LET f == Flush(s, audioDevice)
                   IN  /\ Store(f.state)
                       /\ sinkCalls' = IF f.pushed THEN sinkCalls + 1 ELSE sinkCalls
                       /\ flushCalls' = f.calls
                /\ frames' = frames + 1
           ELSE /\ Store(IF NeedToRun(s, s.cur) THEN Run(s) ELSE s)
                /\ flushCalls' = <<>>
                /\ UNCHANGED <<sinkCalls, frames>>
    /\ NoRead
    /\ UNCHANGED <<nesModel, blipClockRate, audioDevice, opsLeft>>
    /\ UNCHANGED detailVars

\* The cycles at which a run of idle Exec calls may stop: right before the frame
\* limit and right before the frame counter's or the DMC's IRQ falls due.
IdleStops(s) ==
    {FrameCycleLimit - 1,
     s.prev + FcCyclesToIrq(s.fc) - 1, s.prev + DmcCyclesToIrq(s.dmc) - 1}

\* Whether the next Exec call takes one of the two branches of APU::Exec.
ExecTakesBranch ==
    \/ currentCycle + 1 = FrameCycleLimit
    \/ NeedToRun(ApuState, currentCycle + 1)

\* A run of consecutive Exec calls each of which takes neither branch of APU::Exec,
\* so that each only increments _currentCycle.  NeedToRun(c) compares c - previous
\* with fixed thresholds, so that it is false up to `stop` when it is false at `stop`.
ExecIdle(stop) ==
    /\ stop > currentCycle
    /\ stop < FrameCycleLimit
    /\ ~NeedToRun(ApuState, stop)
    /\ currentCycle' = stop
    /\ lastOp' = "idle"
    /\ lastArg' = <<>>
    /\ preIrq' = {}
    /\ flushCalls' = <<>>
    /\ NoRead
    /\ UNCHANGED <<previousCycle, nesModel, chan, dmc, fc, irq, lcNeedToRun,
                   blipClockRate, audioDevice, sinkCalls, opsLeft, frames>>
    /\ UNCHANGED detailVars

\* APU::Reset.
Reset(softReset) ==
    /\ Access("reset", softReset)
    /\ currentCycle' = 0
    /\ previousCycle' = 0
    /\ chan' = [c \in Channels |-> ChannelReset]
    /\ dmc' = DmcReset(nesModel)
    /\ fc' = FcReset(nesModel)
    /\ NoRead
    /\ UNCHANGED <<nesModel, irq, lcNeedToRun, blipClockRate>>

\* APU::SetNesModel with Run() called after the reconfiguration, not before it.
SetNesModelThenRun(model, forceInit) ==
    /\ Access("setmodel", <<model, forceInit>>)
    /\ IF nesModel # model \/ forceInit
       THEN /\ nesModel' = model
            /\ blipClockRate' = model
            /\ Store(Run([ApuState EXCEPT !.dmc = DmcSetNesModel(dmc, model),
                                          !.fc = FcSetNesModel(fc, model)]))
       ELSE UNCHANGED <<currentCycle, previousCycle, nesModel, chan, dmc, fc, irq,
                        lcNeedToRun, blipClockRate>>
    /\ NoRead

\* APU::SetNesModel.
SetNesModel(model, forceInit) ==
    /\ Access("setmodel", <<model, forceInit>>)
    /\ IF nesModel # model \/ forceInit
       THEN LET r == Run(ApuState)
            IN  /\ nesModel' = model
                /\ blipClockRate' = model
                /\ Store([r EXCEPT !.dmc = DmcSetNesModel(r.dmc, model),
                                   !.fc = FcSetNesModel(r.fc, model)])
       ELSE UNCHANGED <<currentCycle, previousCycle, nesModel, chan, dmc, fc, irq,
                        lcNeedToRun, blipClockRate>>
    /\ NoRead

\* The fields APU::StreamState streams, in its order.  The CPU's IRQ sources, the
\* length counters' static flag and the audio device are not among them.
SaveState ==
    [nesModel |-> nesModel, currentCycle |-> currentCycle,
     previousCycle |-> previousCycle, chan |-> chan, dmc |-> dmc, fc |-> fc]

\* The bookkeeping of a call of StreamState; lastArg takes the two cycle counters
\* written or read.
Streamed(op) ==
    /\ lastOp' = op
    /\ lastArg' = IF op = "restore" THEN <<saved.previousCycle, saved.currentCycle>>
                  ELSE <<previousCycle, currentCycle>>
    /\ preIrq' = irq
    /\ flushCalls' = <<>>
    /\ NoRead
    /\ UNCHANGED <<audioDevice, sinkCalls, opsLeft, frames, units, noise, loop>>

\* APU::StreamState reading _currentCycle into _previousCycle as well (the same
\* field streamed twice).
StreamStateCurrentTwice(saving) ==
    IF saving
    THEN /\ Streamed("save")
         /\ saved' = SaveState
         /\ UNCHANGED <<currentCycle, previousCycle, nesModel, chan, dmc, fc, irq,
                        lcNeedToRun, blipClockRate>>
    ELSE /\ saved # NoSave
         /\ Streamed("restore")
         /\ LET s == [cur |-> saved.currentCycle, prev |-> saved.currentCycle,
                      chan |-> saved.chan, dmc |-> saved.dmc, fc |-> saved.fc,
                      irq |-> irq, ntr |-> lcNeedToRun]
                r == Run(s)
            IN  /\ nesModel' = saved.nesModel
                /\ blipClockRate' = saved.nesModel
                /\ Store([r EXCEPT !.dmc = DmcSetNesModel(r.dmc, saved.nesModel),
                                   !.fc = FcSetNesModel(r.fc, saved.nesModel)])
         /\ saved' = NoSave

\* APU::StreamState.  Saving writes the fields to the stream; loading reads them
\* back, which uses the stream up, and then calls SetNesModel(_nesModel, true):
\* Run(), then the reconfiguration for the model just read.
StreamState(saving) ==
    IF saving
    THEN /\ Streamed("save")
         /\ saved' = SaveState
         /\ UNCHANGED <<currentCycle, previousCycle, nesModel, chan, dmc, fc, irq,
                        lcNeedToRun, blipClockRate>>
    ELSE /\ saved # NoSave
         /\ Streamed("restore")
         /\ LET s == [cur |-> saved.currentCycle, prev |-> saved.previousCycle,
                      chan |-> saved.chan, dmc |-> saved.dmc, fc |-> saved.fc,
                      irq |-> irq, ntr |-> lcNeedToRun]
                r == Run(s)
            IN  /\ nesModel' = saved.nesModel
                /\ blipClockRate' = saved.nesModel
                /\ Store([r EXCEPT !.dmc = DmcSetNesModel(r.dmc, saved.nesModel),
                                   !.fc = FcSetNesModel(r.fc, saved.nesModel)])
         /\ saved' = NoSave

---------------------------------------------------------------------------
\* Writes to the registers of the channels and of the frame counter.  Each runs the
\* APU to the current cycle before it is applied.

\* $4003 / $4007 / $400B / $400F: length-counter load.
WriteLengthLoad(c, value) ==
    /\ Access("load", <<c, value>>)
    /\ LET r == Run(ApuState)
       IN  Store([r EXCEPT !.chan[c] = ChannelLoadLength(@, value), !.ntr = TRUE])
    /\ NoRead
    /\ UNCHANGED <<nesModel, blipClockRate>>

\* $4000 / $4004 / $400C (bit 5), $4008 (bit 7): the length counter's halt flag.
WriteHalt(c, value) ==
    /\ Access("halt", <<c, value>>)
    /\ LET r == Run(ApuState)
           h == Bit(value, IF c = "Triangle" THEN 7 ELSE 5) = 1
       IN  Store([r EXCEPT !.chan[c] = ChannelSetHalt(@, h), !.ntr = TRUE])
    /\ NoRead
    /\ UNCHANGED <<nesModel, blipClockRate>>

\* $4017: mode (bit 7) and IRQ inhibit (bit 6); the sequence restarts `delay` cycles
\* later (3 on an even CPU cycle, 4 on an odd one); 5-step mode clocks a half frame
\* and a quarter frame at once; the inhibit bit clears the pending frame IRQ.
Write4017(value, delay) ==
    /\ Access("write4017", <<value, delay>>)
    /\ LET r == Run(ApuState)
           m == Bit(value, 7)
           inh == Bit(value, 6) = 1
           f == [r.fc EXCEPT !.mode = m, !.inhibit = inh, !.step = 1, !.pos = 0 - delay]
           ch == IF m = 1
                 THEN FrameCounterTick(FrameCounterTick(r.chan, "Half"), "Quarter")
                 ELSE r.chan
           q == IF inh THEN ClearIRQSource(r.irq, "FrameCounter") ELSE r.irq
       IN  Store([r EXCEPT !.fc = f, !.chan = ch, !.irq = q])
    /\ NoRead
    /\ UNCHANGED <<nesModel, blipClockRate>>

\* $4010: IRQ enable (bit 7), loop (bit 6), rate index (low 4 bits).
Write4010(value) ==
    /\ Access("write4010", value)
    /\ LET r == Run(ApuState)
       IN  Store([r EXCEPT !.dmc = [@ EXCEPT !.irqEnabled = Bit(value, 7) = 1,
                                             !.loop = Bit(value, 6) = 1,
                                             !.rate = value % 16,
                                             !.period = DmcPeriod(nesModel, value % 16)]])
    /\ NoRead
    /\ UNCHANGED <<nesModel, blipClockRate>>

\* $4013: sample length.
Write4013(value) ==
    /\ Access("write4013", value)
    /\ LET r == Run(ApuState)
       IN  Store([r EXCEPT !.dmc.sampleLength = DmcSampleLength(value)])
    /\ NoRead
    /\ UNCHANGED <<nesModel, blipClockRate>>

---------------------------------------------------------------------------
\* The values the CPU writes.
Write4015Values == {10, 21}
LengthLoadValues == {24}
HaltChannels == {"Square1", "Triangle"}
HaltValues == {160}
Write4017Values == {64, 128}
Write4017Delays == {3, 4}
Write4010Values == {143}
Write4013Values == {1}

\* The CPU calls Exec once per cycle.  The calls that take a branch of APU::Exec are
\* steps of Exec; the calls between them, which only count a cycle, are taken
\* together by ExecIdle, so that register accesses fall right before and right
\* after the cycles on which Exec acts.
Next ==
    \/ (ExecTakesBranch /\ Exec)
    \/ \E stop \in IdleStops(ApuState) : ExecIdle(stop)
    \/ ReadRAM
    \/ \E v \in Write4015Values : WriteRAM(v)
    \/ \E c \in Channels, v \in LengthLoadValues : WriteLengthLoad(c, v)
    \/ \E c \in HaltChannels, v \in HaltValues : WriteHalt(c, v)
    \/ \E v \in Write4017Values, d \in Write4017Delays : Write4017(v, d)
    \/ \E v \in Write4010Values : Write4010(v)
    \/ \E v \in Write4013Values : Write4013(v)
    \/ \E soft \in BOOLEAN : Reset(soft)
    \/ \E m \in Models, force \in BOOLEAN : SetNesModel(m, force)

Spec == Init /\ [][Next]_vars

---------------------------------------------------------------------------
\* The frame IRQ scenario: from reset the CPU writes $4017 = 0x00, then steps the
\* APU cycle by cycle, every call of Exec a step of its own, and reads $4015 once
\* it has stepped FrameIrqSteps cycles or up to two more.

\* The number of CPU cycles the scenario steps before it looks at the IRQ source.
FrameIrqSteps == 29830

\* CPU cycles stepped since reset, and the part of them the APU has run.
Elapsed == frames * FrameCycleLimit + currentCycle
ElapsedRun == frames * FrameCycleLimit + previousCycle

\* The delay the $4017 write was made with: the distance between the cycles run
\* since the write and the position of the 4-step sequence it restarted.
WriteDelay == (ElapsedRun - fc.pos) % StepCycles4Ntsc[6]

FrameIrqNext ==
    \/ (lastOp = "init" /\ \E d \in Write4017Delays : Write4017(0, d))
    \/ (lastOp \in {"write4017", "exec"} /\ Elapsed < FrameIrqSteps + 2 /\ Exec)
    \/ (lastOp = "exec" /\ Elapsed >= FrameIrqSteps /\ ReadRAM)

SpecFrameIrq == Init /\ [][FrameIrqNext]_vars

---------------------------------------------------------------------------
\* C1: after a read or a write of $4015 the watermark equals the current cycle,
\* and every channel has been advanced to that cycle.
C1_AccessSynchronizes ==
    lastOp \in {"read", "write"} =>
        /\ previousCycle = currentCycle
        /\ \A c \in Channels : chan[c].cycle = currentCycle
        /\ dmc.cycle = currentCycle

\* The first access of a run, a read made on the last cycle of the first frame: no
\* Run() came before it, so that it found the watermark 9999 cycles behind.
C1_Witness ==
    /\ lastOp = "read"
    /\ opsLeft = MaxOps - 1
    /\ frames = 0
    /\ currentCycle = FrameCycleLimit - 1
    /\ dmc.cycle = currentCycle

\* C2: from every reachable state Run() ends with the watermark exactly on the
\* current cycle, whatever prefixes the frame counter consumed on the way.
C2_RunReachesCurrentCycle ==
    LET r == Run(ApuState)
    IN  r.prev = currentCycle /\ r.cur = currentCycle

\* A state from which Run() needs more than one iteration: the frame counter stops
\* at an event boundary before the current cycle.
C2_Witness ==
    /\ previousCycle < currentCycle
    /\ FcRun(fc, irq, currentCycle - previousCycle).ran < currentCycle - previousCycle
    /\ Run(ApuState).prev = currentCycle

\* C3: 0 <= previous_cycle <= current_cycle <= FrameCycleLimit in every state.
C3_CycleBounds ==
    /\ 0 <= previousCycle
    /\ previousCycle <= currentCycle
    /\ currentCycle <= FrameCycleLimit

\* A state with pending work (the watermark behind the current cycle, both
\* positive) in a frame after the first flush.
C3_Witness ==
    /\ 0 < previousCycle
    /\ previousCycle < currentCycle
    /\ frames > 0

\* C4: the byte a $4015 read returns shows, for the state Run() leaves: bits 0-3 the
\* length counters of pulse 1, pulse 2, triangle and noise being above 0, bit 4 the
\* DMC having bytes remaining, bit 5 nothing (0), bit 6 the frame counter's IRQ
\* source and bit 7 the DMC's IRQ source.
C4_StatusByteBits ==
    [][lastOp' = "read" =>
        LET r == Run(ApuState)
        IN  /\ lastStatus' \in 0..255
            /\ (Bit(lastStatus', 0) = 1) = (r.chan["Square1"].lengthCounter > 0)
            /\ (Bit(lastStatus', 1) = 1) = (r.chan["Square2"].lengthCounter > 0)
            /\ (Bit(lastStatus', 2) = 1) = (r.chan["Triangle"].lengthCounter > 0)
            /\ (Bit(lastStatus', 3) = 1) = (r.chan["Noise"].lengthCounter > 0)
            /\ (Bit(lastStatus', 4) = 1) = (r.dmc.bytesRemaining > 0)
            /\ Bit(lastStatus', 5) = 0
            /\ (Bit(lastStatus', 6) = 1) = ("FrameCounter" \in r.irq)
            /\ (Bit(lastStatus', 7) = 1) = ("DMC" \in r.irq)]_vars

\* A read that returns the frame IRQ and the DMC's bytes-remaining bit set, one
\* length counter above 0 and another at 0.
C4_Witness ==
    /\ lastOp = "read"
    /\ Bit(lastStatus, 6) = 1
    /\ Bit(lastStatus, 4) = 1
    /\ Bit(lastStatus, 2) = 1
    /\ Bit(lastStatus, 3) = 0

\* C5: of two reads of $4015 with nothing between them, the second returns the
\* bits of the first, except bit 6, which it returns clear.
C5_SecondReadSameButFrameIrq ==
    prevStatus # -1 =>
        /\ lastOp = "read"
        /\ \A k \in (0..7) \ {6} : Bit(lastStatus, k) = Bit(prevStatus, k)
        /\ Bit(lastStatus, 6) = 0

\* Two reads in a row, the first of which returned the frame IRQ, and both of which
\* returned the DMC's bytes-remaining bit.
C5_Witness ==
    /\ prevStatus # -1
    /\ Bit(prevStatus, 6) = 1
    /\ Bit(prevStatus, 4) = 1
    /\ Bit(lastStatus, 4) = 1

\* C6: a $4015 read leaves the frame counter's IRQ source clear, leaves the DMC's
\* source pending when it was pending as the byte was composed, and changes no
\* channel's enabled flag.
C6_ReadClearsFrameIrqOnly ==
    [][lastOp' = "read" =>
        /\ "FrameCounter" \notin irq'
        /\ ("DMC" \in Run(ApuState).irq) = ("DMC" \in irq')
        /\ \A c \in Channels : chan'[c].enabled = chan[c].enabled]_vars

\* A read that found both sources pending and channels enabled: afterwards only
\* the DMC's source is pending.
C6_Witness ==
    /\ lastOp = "read"
    /\ preIrq = {"FrameCounter", "DMC"}
    /\ irq = {"DMC"}
    /\ \E c \in Channels : chan[c].enabled

\* The bit of $4015 that belongs to each length-counter channel.
ChannelBit == [c \in Channels |->
                 CASE c = "Square1" -> 0 [] c = "Square2" -> 1
                   [] c = "Triangle" -> 2 [] c = "Noise" -> 3]

C8_DmcEnableBit ==
    [][lastOp' = "write" =>
        LET r == Run(ApuState).dmc
        IN  IF Bit(lastArg', 4) = 0
            THEN dmc'.bytesRemaining = 0
            ELSE IF r.bytesRemaining = 0
                 THEN /\ dmc'.currentAddr = r.sampleAddr
                      /\ dmc'.bytesRemaining = r.sampleLength
                      /\ dmc'.bytesRemaining > 0
                 ELSE /\ dmc'.currentAddr = r.currentAddr
                      /\ dmc'.bytesRemaining = r.bytesRemaining]_vars

\* A write with bit 4 set that restarted a sample of 17 bytes ($4013 = 0x01).
C8_Witness ==
    /\ lastOp = "write"
    /\ Bit(lastArg, 4) = 1
    /\ dmc.sampleLength = 17
    /\ dmc.bytesRemaining = 17
    /\ dmc.currentAddr = dmc.sampleAddr

\* C9: a $4015 write sets each channel's enabled flag to its bit, and only a $4015
\* write (or a reset) changes the flag; while the flag is clear the length counter is
\* 0, through steps and length-load writes alike, and a read returns the channel's
\* bit as 0.
C9_DisabledChannelStaysSilent ==
    /\ [](\A c \in Channels :
            /\ lastOp = "write" => chan[c].enabled = (Bit(lastArg, ChannelBit[c]) = 1)
            /\ ~chan[c].enabled => chan[c].lengthCounter = 0
            /\ (lastOp = "read" /\ ~chan[c].enabled) => Bit(lastStatus, ChannelBit[c]) = 0)
    /\ [][\A c \in Channels :
            chan'[c].enabled # chan[c].enabled => lastOp' \in {"write", "reset"}]_vars

\* A length-load write to pulse 1 made while a $4015 write holds pulse 1 disabled
\* and pulse 2 enabled: the counter is still 0.
C9_Witness ==
    /\ lastOp = "load"
    /\ lastArg[1] = "Square1"
    /\ ~chan["Square1"].enabled
    /\ chan["Square2"].enabled
    /\ chan["Square1"].lengthCounter = 0

\* C10 as stated: every flush of a frame pushes to the audio sink exactly once, and
\* nothing else pushes.
C10_SinkOncePerFrame == sinkCalls = frames

\* C10, amended: with an audio device registered every flush of a frame pushes to it
\* exactly once and nothing else pushes; with none registered nothing is pushed.
C10_SinkOncePerFrameIfDevice ==
    sinkCalls = IF audioDevice THEN frames ELSE 0

\* A reset made after two frames were flushed to a registered device.
C10_Witness ==
    /\ audioDevice
    /\ lastOp = "reset"
    /\ frames = 2
    /\ sinkCalls = 2

---------------------------------------------------------------------------
\* Save-state round trips: the console runs as under Spec, with fewer register
\* values, and at any point between two operations writes a save state and reads it
\* straight back.
SaveNext ==
    \/ (ExecTakesBranch /\ Exec)
    \/ \E stop \in IdleStops(ApuState) : ExecIdle(stop)
    \/ ReadRAM
    \/ WriteRAM(21)
    \/ WriteLengthLoad("Triangle", 24)
    \/ Write4010(143)
    \/ (lastOp \notin {"save", "restore"} /\ StreamState(TRUE))
    \/ (lastOp = "save" /\ StreamState(FALSE))

SpecSave == Init /\ [][SaveNext]_vars

---------------------------------------------------------------------------
\* The loop of APU::Run, one iteration at a time.  A call of ReadRAM, WriteRAM or
\* Exec enters Run(), the loop takes its iterations, and when the loop is left the
\* caller does the rest of its work and returns.  The program has one thread: while
\* a call is in progress nothing else takes a step.

\* The cycles at which time is let pass up to, besides those of IdleStops.
LoopStops == {1, 7457, 8000}

\* The callers of Run() that are taken step by step.
RunCallers == {"ReadRAM", "WriteRAM", "Exec"}

LoopBookkeeping(op) ==
    /\ lastOp' = op
    /\ lastArg' = <<>>
    /\ preIrq' = {}
    /\ flushCalls' = <<>>
    /\ prevStatus' = -1
    /\ UNCHANGED <<nesModel, blipClockRate, audioDevice, units, noise, saved>>

\* The caller up to its call of Run(), and line 133 of Run().
RunEnter(caller, arg) ==
    /\ loop.pc = "idle"
    /\ IF caller = "Exec"
       THEN /\ ExecTakesBranch
            /\ currentCycle + 1 = FrameCycleLimit => frames < MaxFrames
            /\ currentCycle' = currentCycle + 1
            /\ UNCHANGED opsLeft
       ELSE /\ opsLeft > 0
            /\ opsLeft' = opsLeft - 1
            /\ UNCHANGED currentCycle
    /\ loop' = [pc |-> "running", caller |-> caller, arg |-> arg,
                cyclesToRun |-> currentCycle' - previousCycle, ran |-> 0,
                calls |-> <<>>]
    /\ LoopBookkeeping("call")
    /\ lastStatus' = -1
    /\ UNCHANGED <<previousCycle, chan, dmc, fc, irq, lcNeedToRun, sinkCalls, frames>>

\* One iteration of the loop (lines 135-143).
RunStep ==
    /\ loop.pc = "running"
    /\ previousCycle < currentCycle
    /\ \E r \in {RunIteration(ApuState, loop.cyclesToRun)} :
           /\ Store(r.state)
           /\ loop' = [loop EXCEPT !.cyclesToRun = r.cyclesToRun, !.ran = r.ran,
                                   !.calls = r.calls]
    /\ LoopBookkeeping("iteration")
    /\ lastStatus' = -1
    /\ UNCHANGED <<opsLeft, sinkCalls, frames>>

\* The loop is left, and the caller does what follows its call of Run().
RunReturn ==
    /\ loop.pc = "running"
    /\ ~(previousCycle < currentCycle)
    /\ loop' = LoopIdle
    /\ LoopBookkeeping("return")
    /\ lastStatus' = IF loop.caller = "ReadRAM" THEN StatusByte(ApuState) ELSE -1
    /\ UNCHANGED opsLeft
    /\ CASE loop.caller = "ReadRAM" ->
              /\ Store([ApuState EXCEPT !.irq = ClearIRQSource(irq, "FrameCounter")])
              /\ UNCHANGED <<sinkCalls, frames>>
         [] loop.caller = "WriteRAM" ->
              /\ \E w \in {ApplyWrite4015(ApuState, loop.arg)} : Store(w)
              /\ UNCHANGED <<sinkCalls, frames>>
         [] loop.caller = "Exec" ->
              IF currentCycle = FrameCycleLimit
              THEN /\ \E e \in {EndFrame(ApuState)} : Store(e)
                   /\ sinkCalls' = IF audioDevice THEN sinkCalls + 1 ELSE sinkCalls
                   /\ frames' = frames + 1
              ELSE /\ Store(ApuState)
                   /\ UNCHANGED <<sinkCalls, frames>>

RunLoopNext ==
    \/ \E stop \in LoopStops \cup IdleStops(ApuState) : loop.pc = "idle" /\ ExecIdle(stop)
    \/ \E model \in Models : loop.pc = "idle" /\ SetNesModel(model, FALSE)
    \/ (loop.pc = "idle" /\ WriteLengthLoad("Triangle", 24))
    \/ \E caller \in RunCallers : RunEnter(caller, 21)
    \/ RunStep
    \/ RunReturn

SpecRunLoop == Init /\ [][RunLoopNext]_vars

\* The cycles at which time is let pass up to when the calls are followed to their
\* return: the first boundary of the NTSC sequence and the last cycle of the frame.
CallStops == {7457, FrameCycleLimit - 1}

RunCallsNext ==
    \/ \E stop \in CallStops : loop.pc = "idle" /\ ExecIdle(stop)
    \/ \E model \in Models : loop.pc = "idle" /\ SetNesModel(model, FALSE)
    \/ \E caller \in RunCallers : RunEnter(caller, 21)
    \/ RunStep
    \/ RunReturn

\* A call in progress goes on: the loop takes its next iteration, and a loop that
\* is left returns.
SpecRunCalls ==
    Init /\ [][RunCallsNext]_vars /\ WF_vars(RunStep) /\ WF_vars(RunReturn)

---------------------------------------------------------------------------
\* The frame counter's callback on its own: events delivered to channels whose
\* length counters were enabled, loaded and halted through the registers.

\* The events delivered in one exploration.
MaxTicks == 3

TicksDelivered == units[<<"Square1", "Envelope">>]

\* APU::FrameCounterTick(type), called back by the frame counter.
Tick(type) ==
    /\ TicksDelivered < MaxTicks
    /\ units' = ClockUnits(units, type)
    /\ chan' = ClockLengthCounters(chan, type)
    /\ lastOp' = "tick"
    /\ lastArg' = type
    /\ preIrq' = {}
    /\ flushCalls' = <<>>
    /\ NoRead
    /\ UNCHANGED <<currentCycle, previousCycle, nesModel, dmc, fc, irq, lcNeedToRun,
                   blipClockRate, audioDevice, sinkCalls, opsLeft, frames, noise, saved,
                   loop>>

TickNext ==
    \/ WriteRAM(15)
    \/ \E c \in Channels : WriteLengthLoad(c, 24)
    \/ WriteHalt("Square1", 160)
    \/ \E type \in {"Quarter", "Half"} : Tick(type)

SpecTick == Init /\ [][TickNext]_vars

---------------------------------------------------------------------------
\* The noise channel's shift register.

\* A tick that shifts the register right and feeds nothing back.
LfsrShiftOnly(sr, mode) == sr \div 2

\* A tick: bit 0 XOR bit 1 (short mode) or bit 6 (long mode) is computed, the
\* register is shifted right by one and the XOR is placed into bit 14.
LfsrTick(sr, mode) ==
    LET feedback == (Bit(sr, 0) + Bit(sr, IF mode THEN 1 ELSE 6)) % 2
    IN  (sr \div 2) + feedback * (2 ^ 14)

NoiseBookkeeping(op, arg) ==
    /\ lastOp' = op
    /\ lastArg' = arg
    /\ preIrq' = {}
    /\ flushCalls' = <<>>
    /\ NoRead
    /\ UNCHANGED <<currentCycle, previousCycle, nesModel, chan, dmc, fc, irq,
                   lcNeedToRun, blipClockRate, audioDevice, sinkCalls, opsLeft, frames,
                   units, saved, loop>>

\* The noise channel's timer expires: the shift register ticks.
NoiseTick ==
    /\ noise' = [noise EXCEPT !.shiftRegister = LfsrTick(@, noise.mode)]
    /\ NoiseBookkeeping("noisetick", <<>>)

\* $400E: bit 6 selects the mode (set: short).
Write400E(value) ==
    /\ noise' = [noise EXCEPT !.mode = Bit(value, 6) = 1]
    /\ NoiseBookkeeping("write400E", value)

LfsrNext ==
    \/ NoiseTick
    \/ \E value \in {0, 64} : Write400E(value)

SpecLfsr == Init /\ [][LfsrNext]_vars

---------------------------------------------------------------------------
\* The names of the calls of the last flush, in order.
FlushCallNames == [i \in 1..Len(flushCalls) |-> flushCalls[i].call]

\* What a flush does around the push: Run() has drained to the frame limit before
\* any end-of-frame hook, every channel gets its hook with its time base at the
\* limit, the accumulator is finalized and read at the limit before the counters
\* are rebased to 0, and no channel has been advanced after its hook (each time
\* base is at the start of the new frame).
FlushDrainsThenRebases ==
    /\ flushCalls[1].cycle = FrameCycleLimit
    /\ \A i \in 2..6 : flushCalls[i].cycle = FrameCycleLimit
    /\ {flushCalls[i].on : i \in 2..6} = Channels \cup {"DMC"}
    /\ flushCalls[7].cycle = FrameCycleLimit
    /\ flushCalls[8].cycle = FrameCycleLimit
    /\ flushCalls[Len(flushCalls)].cycle = 0
    /\ currentCycle = 0
    /\ previousCycle = 0
    /\ \A c \in Channels \cup {"DMC"} : Watermark(ApuState, c) = 0

\* C11 as stated: the step that brings current_cycle to the frame limit calls, in
\* this order, Run(), the end-of-frame hook of every channel, the accumulator's
\* end_frame at the limit, read_samples and the push to the sink, and then rebases
\* both counters to 0; no channel is advanced after its hook.
C11_FlushOrder ==
    /\ (lastOp = "exec" /\ currentCycle = 0) => flushCalls # <<>>
    /\ flushCalls # <<>> =>
          /\ FlushCallNames = <<"Run", "EndFrame", "EndFrame", "EndFrame", "EndFrame",
                                "EndFrame", "end_frame", "read_samples", "PlayBuffer",
                                "rebase">>
          /\ FlushDrainsThenRebases

\* C11, amended: the same order, the push to the sink being made, between
\* read_samples and the rebase, when an audio device is registered and left out
\* when none is.
C11_FlushOrderPushIfDevice ==
    /\ (lastOp = "exec" /\ currentCycle = 0) => flushCalls # <<>>
    /\ flushCalls # <<>> =>
          /\ FlushCallNames = <<"Run", "EndFrame", "EndFrame", "EndFrame", "EndFrame",
                                "EndFrame", "end_frame", "read_samples">>
                               \o (IF audioDevice THEN <<"PlayBuffer">> ELSE <<>>)
                               \o <<"rebase">>
          /\ FlushDrainsThenRebases

\* The second flush of a run, made with a device registered and the DMC playing: the
\* ten calls were made.
C11_Witness ==
    /\ flushCalls # <<>>
    /\ Len(flushCalls) = 10
    /\ frames = 2
    /\ dmc.bytesRemaining > 0

\* What C12 asks of a step (lastOp' = "exec") and of a row of steps on which
\* NeedToRun is false (lastOp' = "idle").
LazyStep ==
    /\ lastOp' = "exec" =>
          LET s == [ApuState EXCEPT !.cur = currentCycle + 1]
          IN  /\ irq' = Run(s).irq
              /\ s.cur # FrameCycleLimit =>
                    /\ (previousCycle' = currentCycle') = NeedToRun(s, s.cur)
                    /\ ~NeedToRun(s, s.cur) => previousCycle' = previousCycle
    /\ lastOp' = "idle" =>
          /\ previousCycle' = previousCycle
          /\ ~NeedToRun(ApuState, currentCycle + 1)
          /\ irq' = Run([ApuState EXCEPT !.cur = currentCycle']).irq

\* C12: lazy advancement does not show on the IRQ line.  After every step the
\* pending IRQ sources are those of an APU that ran to the current cycle on that
\* step; a step short of the frame limit runs the APU exactly when NeedToRun is
\* true, and steps on which it is false (taken singly or in a row) run nothing and
\* leave no IRQ of the frame counter or the DMC behind the watermark.
C12_LazyRunKeepsIrq == [][LazyStep]_vars

\* A step short of the frame limit that ran the APU because the DMC's IRQ fell due
\* on it, and raised it.
C12_Witness ==
    /\ lastOp = "exec"
    /\ currentCycle # 0
    /\ previousCycle = currentCycle
    /\ "DMC" \in irq
    /\ dmc.bytesRemaining = 0

\* C13: while the frame counter's irq_inhibit flag is set its IRQ source is not
\* pending, through steps, $4015 accesses and $4017 writes alike; and a $4017
\* write with bit 6 set leaves the flag set and the source not pending.
C13_InhibitedFrameIrq ==
    /\ fc.inhibit => "FrameCounter" \notin irq
    /\ (lastOp = "write4017" /\ Bit(lastArg[1], 6) = 1) =>
          (fc.inhibit /\ "FrameCounter" \notin irq)

\* A $4017 write with bit 6 set made while the frame IRQ was pending.
C13_Witness ==
    /\ lastOp = "write4017"
    /\ Bit(lastArg[1], 6) = 1
    /\ "FrameCounter" \in preIrq
    /\ "FrameCounter" \notin irq
    /\ fc.inhibit


SetModelStep ==
    lastOp' = "setmodel" =>
        LET model == lastArg'[1]
            forceInit == lastArg'[2]
            r == Run(ApuState)
        IN  IF model # nesModel \/ forceInit
            THEN /\ currentCycle' = currentCycle
                 /\ previousCycle' = currentCycle
                 /\ irq' = r.irq
                 /\ chan' = r.chan
                 /\ dmc' = DmcSetNesModel(r.dmc, model)
                 /\ fc' = FcSetNesModel(r.fc, model)
                 /\ nesModel' = model
                 /\ blipClockRate' = model
            ELSE UNCHANGED <<currentCycle, previousCycle, nesModel, chan, dmc, fc, irq,
                             lcNeedToRun, blipClockRate, audioDevice, sinkCalls, frames>>

\* C15: SetNesModel(model, forceInit) with another model than the current one, or
\* with forceInit, first completes Run() with the tables and rates of the old model
\* (the watermark is on the current cycle, the IRQ sources and the channels are as
\* that Run() leaves them) and only then changes the model, the accumulator's clock
\* rate and the tables of the DMC and the frame counter; with the current model and
\* no forceInit it changes nothing: no Run(), no reconfiguration.
C15_SetModelRunsFirst == [][SetModelStep]_vars

\* A switch to PAL made 9999 cycles into the first frame with nothing run yet: the
\* DMC's timer stands where 9999 cycles of the NTSC period (428) leave it.
C15_Witness ==
    /\ lastOp = "setmodel"
    /\ lastArg = <<"PAL", FALSE>>
    /\ nesModel = "PAL"
    /\ opsLeft = MaxOps - 1
    /\ previousCycle = FrameCycleLimit - 1
    /\ dmc.period = DmcPeriodPal[1]
    /\ dmc.timer = DmcPeriodNtsc[1] - ((FrameCycleLimit - 1) % DmcPeriodNtsc[1])

\* What a $4015 read made at cycle c of the current frame would find, c being
\* reached from state s by steps alone: the status byte, the IRQ sources, and the
\* state of the channels, the DMC and the frame counter (which their posted deltas
\* follow from).
Observation(s, c) ==
    LET r == Run([s EXCEPT !.cur = c])
    IN  [status |-> StatusByte(r), irq |-> r.irq, chan |-> r.chan, dmc |-> r.dmc,
         fc |-> r.fc]

\* The cycles of the rest of the frame at which the two runs are compared: the
\* current one, the frame limit, and the cycles around which Exec acts.
ObservedCycles(s) ==
    {c \in ({s.cur, FrameCycleLimit} \cup IdleStops(s) \cup {x + 1 : x \in IdleStops(s)}) :
        s.cur <= c /\ c <= FrameCycleLimit}

\* What C16 asks of a call of StreamState.
RoundTripStep ==
    /\ lastOp' = "save" =>
          UNCHANGED <<currentCycle, previousCycle, nesModel, chan, dmc, fc, irq,
                      lcNeedToRun, blipClockRate, audioDevice, sinkCalls, frames>>
    /\ lastOp' = "restore" =>
          LET after == [cur |-> currentCycle', prev |-> previousCycle', chan |-> chan',
                        dmc |-> dmc', fc |-> fc', irq |-> irq', ntr |-> lcNeedToRun']
          IN  /\ currentCycle' = currentCycle
              /\ previousCycle' = currentCycle
              /\ nesModel' = nesModel
              /\ blipClockRate' = blipClockRate
              /\ irq' = irq
              /\ \A c \in ObservedCycles(ApuState) :
                    Observation(after, c) = Observation(ApuState, c)

---------------------------------------------------------------------------
\* The step is one iteration of the loop of Run().
IsRunStep == loop.pc = "running" /\ lastOp' = "iteration"

\* What an iteration of Run()'s loop does, in order: the frame counter first, with
\* _previousCycle as the iteration found it; the tick it delivers, if any, next;
\* _previousCycle increased by the cycles the frame counter reported; then the five
\* channels advanced to the new _previousCycle, pulse 1, pulse 2, noise, triangle,
\* DMC, the length counters having been clocked by the tick before.
IterationStep ==
    IsRunStep =>
        LET calls == loop'.calls
            n == Len(calls)
            order == <<"Square1", "Square2", "Noise", "Triangle", "DMC">>
        IN  /\ n \in {6, 7}
            /\ calls[1] = [call |-> "Run", on |-> "FrameCounter", cycle |-> previousCycle]
            /\ previousCycle' = previousCycle + loop'.ran
            /\ \A i \in 1..5 :
                 calls[n - 5 + i] = [call |-> "Run", on |-> order[i],
                                     cycle |-> previousCycle']
            /\ n = 7 =>
                 /\ calls[2].call = "FrameCounterTick"
                 /\ calls[2].on \in {"Quarter", "Half"}
                 /\ \A c \in Channels :
                      chan'[c].lengthCounter =
                          IF calls[2].on = "Half"
                          THEN TickLengthCounter(chan[c]).lengthCounter
                          ELSE chan[c].lengthCounter
            /\ n = 6 => \A c \in Channels : chan'[c].lengthCounter = chan[c].lengthCounter
            /\ \A c \in Channels : chan'[c].cycle = previousCycle'
            /\ dmc'.cycle = previousCycle'

\* C17: in every iteration of Run()'s loop the frame counter is advanced first,
\* _previousCycle grows by what it returns, a tick delivered in the iteration is
\* applied before the channels are advanced, and the channels are advanced to the
\* new _previousCycle in the order pulse 1, pulse 2, noise, triangle, DMC, so that
\* all five have the same watermark after the iteration.
C17_IterationOrder == [][IterationStep]_vars

\* An iteration that delivered a half-frame tick to a running length counter and
\* left cycles for a further iteration.
C17_Witness ==
    /\ loop.pc = "running"
    /\ Len(loop.calls) = 7
    /\ loop.calls[2].on = "Half"
    /\ previousCycle < currentCycle
    /\ \E c \in Channels : chan[c].lengthCounter > 0 /\ ~chan[c].halt
    /\ \A c \in Channels : chan[c].cycle = previousCycle


---------------------------------------------------------------------------
\* A call of Run(), and with it the caller's, returns.
CallReturns == (loop.pc = "running") ~> (loop.pc = "idle")

\* The frame counter moved on to the next step of its sequence.
FcNextStep == fc'.step = (IF fc.step = Len(StepCycles(fc)) THEN 1 ELSE fc.step + 1)

\* An iteration in which the frame counter reported at least one cycle.
IterationAdvances == IsRunStep => loop'.ran >= 1

\* An iteration brings the loop nearer its end: it advances _previousCycle, never
\* past _currentCycle, or it advances nothing and moves the frame counter on to
\* its next step.
IterationProgresses ==
    IsRunStep =>
        /\ currentCycle' = currentCycle
        /\ previousCycle' = previousCycle + loop'.ran
        /\ previousCycle' <= currentCycle
        /\ loop'.cyclesToRun = currentCycle - previousCycle'
        /\ loop'.ran >= 1 \/ (loop'.ran = 0 /\ FcNextStep)

---------------------------------------------------------------------------
\* The clocks a unit received in the step.
Clocked(x) == units'[x] - units[x]

\* What an event clocks.  A Quarter event clocks the three envelopes and the linear
\* counter once each and nothing else; a Half event clocks those and the four
\* length counters and the two sweeps once each; the DMC is left as it was.
TickStep ==
    lastOp' = "tick" =>
        /\ \A x \in {<<"Square1", "Envelope">>, <<"Square2", "Envelope">>,
                     <<"Noise", "Envelope">>, <<"Triangle", "LinearCounter">>} :
             Clocked(x) = 1
        /\ \A x \in {<<"Square1", "LengthCounter">>, <<"Square2", "LengthCounter">>,
                     <<"Triangle", "LengthCounter">>, <<"Noise", "LengthCounter">>,
                     <<"Square1", "Sweep">>, <<"Square2", "Sweep">>} :
             Clocked(x) = IF lastArg' = "Half" THEN 1 ELSE 0
        /\ \A c \in {"Square1", "Square2", "Triangle", "Noise"} :
             chan'[c] = IF lastArg' = "Half" THEN TickLengthCounter(chan[c]) ELSE chan[c]
        /\ dmc' = dmc

\* C18: a Quarter event clocks exactly the envelopes of pulse 1, pulse 2 and noise
\* and the triangle's linear counter, no length counter and no sweep; a Half event
\* clocks those and the length counters of pulse 1, pulse 2, triangle and noise and
\* the sweeps of pulse 1 and pulse 2; neither clocks anything on the DMC.
C18_TickClocks == [][TickStep]_vars

\* A Half event after a Quarter event, on a channel whose length counter runs.
C18_Witness ==
    /\ lastOp = "tick"
    /\ lastArg = "Half"
    /\ units[<<"Square1", "Envelope">>] > units[<<"Square1", "Sweep">>]
    /\ units[<<"Triangle", "LengthCounter">>] >= 1
    /\ \E c \in Channels : chan[c].lengthCounter > 0 /\ ~chan[c].halt

---------------------------------------------------------------------------
\* C20: the noise channel's 15-bit shift register, seeded with 1, never holds 0,
\* whatever the number of ticks and however short and long mode alternate between
\* them.
C20_LfsrNeverZero == noise.shiftRegister \in 1..(2 ^ 15 - 1)

\* The register back at 1 after a tick in short mode: the one value whose shift
\* leaves no bit but the feedback.
C20_Witness ==
    /\ lastOp = "noisetick"
    /\ noise.mode
    /\ noise.shiftRegister = 1
====
